---- MODULE Spec2Model ----
(***************************************************************************)
(* Model of the LUDO simulation in src/main.py: the board geometry         *)
(* (Board.box_at, Board.next_position, Board.home_position), figures and   *)
(* players, the capture operation Board.move_figure and the turn loop of   *)
(* simulacia.                                                              *)
(*                                                                         *)
(* Coordinates are pairs <<x, y>>.  Python's None is the empty tuple.      *)
(* self.board is a sequence of rows: the Python board[i][j] is             *)
(* board[i + 1][j + 1] here.                                               *)
(***************************************************************************)
EXTENDS Integers, Sequences, FiniteSets, TLC

VARIABLES
    n,               \* Board.n
    board,           \* Board.board, the grid built by _build_board
    starts,          \* Board.starts
    players,         \* Board.players: sequence of Player records
    pc,              \* position of the program
    turn,            \* index in players of the player itertools.cycle yields
    nextId,          \* identity of the next Figure object to be created
    outcome,         \* which message the last turn printed
    deleted_figure,  \* deleted_figure of the last turn (identity or NoFigure)
    wpath,           \* results of iterating Board.next_position from a cell
    fsteps           \* single steps taken by each player's figure (FigureStep)

vars == <<n, board, starts, players, pc, turn, nextId, outcome,
          deleted_figure, wpath, fsteps>>

----------------------------------------------------------------------------
(* Bounds of the model *)

\* board sizes of the game: n = 2 * m + 1 for m in 2..MaxM
MaxM == 3

\* Figure objects created in one run
MaxFigureId == 3

\* sizes tried by the constructor: 0..CtorRange
CtorRange == 60

\* step counts tried on Figure.next_position: 1..MaxSteps
MaxSteps == 7

(* Program constants *)

\* random.randint(1, 6)
DiceSides == 6

\* dice == 6 enters a new figure
EntryRoll == 6

\* a die that never shows 1
Dice_from_two == 2..DiceSides

Dice == 1..DiceSides

BoardSizes == {2 * m + 1 : m \in 2..MaxM}

CtorSizes == 0..CtorRange

----------------------------------------------------------------------------
(* class BoardBox *)

EMPTY == " "

WALL == "X"

PATH == "*"

HOME == "D"

None == <<>>

NoFigure == 0

----------------------------------------------------------------------------
(* Board geometry *)

\* box_at with the edge test of line 171 left out for y
box_at_n_edge_x_only(k, x, y) ==
    LET m == k \div 2 IN
    IF x = m \/ y = m
    THEN IF x = y THEN WALL
         ELSE IF x \in {0, k - 1} THEN PATH
         ELSE HOME
    ELSE IF (x < m - 1 \/ x > m + 1) /\ (y < m - 1 \/ y > m + 1) THEN EMPTY
    ELSE PATH

\* Board.box_at on a board of size k
box_at_n(k, x, y) ==
    LET m == k \div 2 IN
    IF x = m \/ y = m
    THEN IF x = y THEN WALL
         ELSE IF x \in {0, k - 1} \/ y \in {0, k - 1} THEN PATH
         ELSE HOME
    ELSE IF (x < m - 1 \/ x > m + 1) /\ (y < m - 1 \/ y > m + 1) THEN EMPTY
    ELSE PATH

\* Board.box_at
box_at(x, y) == box_at_n(n, x, y)

\* Board._build_board: rows y = 0..k-1 of cells x = 0..k-1
build_board(k) ==
    [yy \in 1..k |-> [xx \in 1..k |-> box_at_n(k, xx - 1, yy - 1)]]

\* the starting positions with the first one a column further right
board_starts_shifted(k) ==
    << <<k \div 2 + 2, 0>>, <<k \div 2 - 1, k - 1>> >>

\* self.starts of Board.__init__
board_starts(k) == << <<k \div 2 + 1, 0>>, <<k \div 2 - 1, k - 1>> >>

\* Board.max_figures with one more cell counted in a lane
max_figures_half == (n - 1) \div 2

\* Board.max_figures
max_figures == (n - 3) \div 2

\* posible_moves with the step of line 138 taken downwards
posible_moves_down(x, y) ==
    LET m == n \div 2
        first == IF x < m
                 THEN (IF y > 0 THEN << <<x, y + 1>> >> ELSE <<>>)
                 ELSE (IF y < n - 1 THEN << <<x, y + 1>> >> ELSE <<>>)
        second == IF y < m
                  THEN (IF x < n - 1 THEN << <<x + 1, y>> >> ELSE <<>>)
                  ELSE (IF x > 0 THEN << <<x - 1, y>> >> ELSE <<>>)
    IN first \o second

\* the candidates Board.next_position collects in posible_moves
posible_moves(x, y) ==
    LET m == n \div 2
        first == IF x < m
                 THEN (IF y > 0 THEN << <<x, y - 1>> >> ELSE <<>>)
                 ELSE (IF y < n - 1 THEN << <<x, y + 1>> >> ELSE <<>>)
        second == IF y < m
                  THEN (IF x < n - 1 THEN << <<x + 1, y>> >> ELSE <<>>)
                  ELSE (IF x > 0 THEN << <<x - 1, y>> >> ELSE <<>>)
    IN first \o second

IsPathCandidate(p) == board[p[2] + 1][p[1] + 1] = PATH

\* Board.next_position without the HOME test of line 133
Board_next_position_no_home_test(x, y) ==
    LET m == n \div 2 IN
    IF x = m /\ y < m - 1 /\ y # 0 THEN <<x, y + 1>>
    ELSE IF x = m /\ y > m + 1 /\ y # n - 1 THEN <<x, y - 1>>
    ELSE IF y = m /\ x < m - 1 /\ x # 0 THEN <<x + 1, y>>
    ELSE IF y = m /\ y > m + 1 /\ y # n - 1 THEN <<x - 1, y>>
    ELSE LET found == SelectSeq(posible_moves(x, y), IsPathCandidate)
         IN IF found # <<>> THEN found[1] ELSE None

\* Board.next_position
Board_next_position(x, y) ==
    LET m == n \div 2 IN
    IF x = m /\ y < m - 1 /\ y # 0 THEN <<x, y + 1>>
    ELSE IF x = m /\ y > m + 1 /\ y # n - 1 THEN <<x, y - 1>>
    ELSE IF y = m /\ x < m - 1 /\ x # 0 THEN <<x + 1, y>>
    ELSE IF y = m /\ y > m + 1 /\ y # n - 1 THEN <<x - 1, y>>
    ELSE IF board[x + 1][y + 1] = HOME THEN None
    ELSE LET found == SelectSeq(posible_moves(x, y), IsPathCandidate)
         IN IF found # <<>> THEN found[1] ELSE None

\* home_position with the results of the top and the bottom edge exchanged
home_position_swapped(x, y) ==
    LET m == n \div 2 IN
    IF x = 0 THEN <<1, m>>
    ELSE IF x = n - 1 THEN <<n - 2, m>>
    ELSE IF y = 0 THEN <<m, n - 2>>
    ELSE IF y = n - 1 THEN <<m, 1>>
    ELSE None

\* Board.home_position
home_position(x, y) ==
    LET m == n \div 2 IN
    IF x = 0 THEN <<1, m>>
    ELSE IF x = n - 1 THEN <<n - 2, m>>
    ELSE IF y = 0 THEN <<m, 1>>
    ELSE IF y = n - 1 THEN <<m, n - 2>>
    ELSE None

----------------------------------------------------------------------------
(* Figures and players *)

\* Figure.__init__
Figure(id, start_position, representation) ==
    [id |-> id, start_position |-> start_position,
     position |-> start_position, representation |-> representation]

\* Player.__init__
Player(representation, home_pos) ==
    [representation |-> representation, home_position |-> home_pos,
     figures |-> <<>>]

\* Player.add_figure
add_figure(player, id) ==
    [player EXCEPT !.figures =
        Append(@, Figure(id, player.home_position, player.representation))]

\* Player.figure_at: the first figure of the player on (x, y)
Player_figure_at(player, x, y) ==
    LET on == SelectSeq(player.figures, LAMBDA f : f.position = <<x, y>>)
    IN IF on # <<>> THEN on[1] ELSE None

\* Board.figure_at: <<figure, index of its player>> of the first player
\* that has a figure on (x, y)
figure_at(x, y) ==
    LET owners == {i \in 1..Len(players) :
                      Player_figure_at(players[i], x, y) # None}
    IN IF owners = {} THEN <<None, None>>
       ELSE LET i == CHOOSE i \in owners : \A j \in owners : i <= j
            IN <<Player_figure_at(players[i], x, y), i>>

\* Figure.is_home
is_home(figure) == box_at(figure.position[1], figure.position[2]) = HOME

\* the loop of Figure.next_position: moves single steps from position
RECURSIVE StepLoop(_, _, _)
StepLoop(position, start_position, moves) ==
    IF moves = 0 THEN position
    ELSE LET nxt == Board_next_position(position[1], position[2])
             redirected == IF nxt = start_position
                           THEN home_position(nxt[1], nxt[2])
                           ELSE nxt
         IN IF redirected = None THEN None
            ELSE StepLoop(redirected, start_position, moves - 1)

\* Figure.next_position without the test of lines 33-35
Figure_next_position_unchecked(figure, moves) ==
    StepLoop(figure.position, figure.start_position, moves)

\* Figure.next_position
Figure_next_position(figure, moves) ==
    LET position == StepLoop(figure.position, figure.start_position, moves)
    IN IF position = None THEN None
       ELSE IF figure_at(position[1], position[2])[1] # None
               /\ box_at(position[1], position[2]) = HOME
            THEN None
       ELSE position

\* Player.figures_finished
RECURSIVE figures_finished_from(_, _)
figures_finished_from(figures, i) ==
    IF i > Len(figures) THEN TRUE
    ELSE IF ~is_home(figures[i]) THEN FALSE
    ELSE figures_finished_from(figures, i + 1)

figures_finished(player) == figures_finished_from(player.figures, 1)

\* Player.active_figures without the figures on HOME cells
active_figures_not_home(player) ==
    SelectSeq(player.figures, LAMBDA f : ~is_home(f))

\* Player.active_figures
active_figures(player) ==
    SelectSeq(player.figures,
              LAMBDA f : ~is_home(f) \/ Figure_next_position(f, 1) # None)

\* has_finished without the count of the figures
has_finished_any_count(player) == figures_finished(player)

\* Player.has_finished
has_finished(player) ==
    Len(player.figures) = max_figures /\ figures_finished(player)

\* delete_figure that removes nothing
delete_figure_keeps(player, figure) == player

\* Player.delete_figure: list.remove of the figure object
delete_figure(player, figure) ==
    [player EXCEPT !.figures = SelectSeq(@, LAMBDA f : f.id # figure.id)]

\* Figure.move_to applied to the figure object inside the players
move_to(ps, figure, position) ==
    [i \in 1..Len(ps) |->
        [ps[i] EXCEPT !.figures =
            [j \in 1..Len(ps[i].figures) |->
                IF ps[i].figures[j].id = figure.id
                THEN [ps[i].figures[j] EXCEPT !.position = position]
                ELSE ps[i].figures[j]]]]

\* Board.move_figure: the players afterwards and the returned del_figure
move_figure(figure, x, y) ==
    LET found == figure_at(x, y)
        del_figure == found[1]
        del_player == found[2]
        afterDelete == IF del_figure # None
                       THEN [players EXCEPT ![del_player] =
                                delete_figure(@, del_figure)]
                       ELSE players
    IN [players |-> move_to(afterDelete, figure, <<x, y>>),
        del_figure |-> del_figure]

----------------------------------------------------------------------------
(* Construction *)

\* Board.__init__(k): assert k % 2, then the fields are set
BoardInit ==
    /\ pc = "new"
    /\ IF n % 2 = 0
       THEN /\ pc' = "AssertionError"
            /\ UNCHANGED <<board, starts>>
       ELSE /\ pc' = "built"
            /\ board' = build_board(n)
            /\ starts' = board_starts(n)
    /\ UNCHANGED <<n, players, turn, nextId, outcome, deleted_figure,
                   wpath, fsteps>>

\* before Board(n) is called with n
InitCtor ==
    /\ n \in CtorSizes
    /\ board = <<>>
    /\ starts = <<>>
    /\ players = <<>>
    /\ pc = "new"
    /\ turn = 1
    /\ nextId = 1
    /\ outcome = "none"
    /\ deleted_figure = NoFigure
    /\ wpath = <<>>
    /\ fsteps = <<>>

NextCtor == BoardInit

SpecCtor == InitCtor /\ [][NextCtor]_vars

\* the state after gensachovnicu(n) for an odd n > 3
Init ==
    /\ n \in BoardSizes
    /\ board = build_board(n)
    /\ starts = board_starts(n)
    /\ players = <<>>
    /\ pc = "built"
    /\ turn = 1
    /\ nextId = 1
    /\ outcome = "none"
    /\ deleted_figure = NoFigure
    /\ wpath = <<>>
    /\ fsteps = <<>>

\* Board.add_player, called by simulacia for 'A' and then for 'B'
AddPlayer ==
    /\ pc \in {"built", "setup"}
    /\ Len(players) < 2
    /\ nextId <= MaxFigureId
    /\ LET representation == IF Len(players) = 0 THEN "A" ELSE "B"
           home_pos == starts[Len(players) + 1]
           player == add_figure(Player(representation, home_pos), nextId)
       IN players' = Append(players, player)
    /\ nextId' = nextId + 1
    /\ fsteps' = Append(fsteps, 0)
    /\ pc' = IF Len(players) = 1 THEN "loop" ELSE "setup"
    /\ UNCHANGED <<n, board, starts, turn, outcome, deleted_figure, wpath>>

----------------------------------------------------------------------------
(* Iterating the geometry on a built board *)

Cells == {<<x, y>> : x \in 0..(n - 1), y \in 0..(n - 1)}

\* no walk revisits nothing after this many calls: the grid has n * n cells
WalkLimit == n * n

\* the first call of a walk: Board.next_position is about to be iterated
\* from cell c of the grid
WalkStart(c) ==
    /\ pc = "built"
    /\ players = <<>>
    /\ wpath = <<>>
    /\ wpath' = <<c>>
    /\ pc' = "walk"
    /\ UNCHANGED <<n, board, starts, players, turn, nextId, outcome,
                   deleted_figure, fsteps>>

\* one call of Board.next_position on the result of the previous one
WalkStep ==
    /\ pc = "walk"
    /\ wpath[Len(wpath)] # None
    /\ Len(wpath) <= WalkLimit
    /\ LET cur == wpath[Len(wpath)]
       IN wpath' = Append(wpath, Board_next_position(cur[1], cur[2]))
    /\ UNCHANGED <<n, board, starts, players, pc, turn, nextId, outcome,
                   deleted_figure, fsteps>>

\* one single step of the figure of player i: Figure.next_position(board, 1)
\* and, when it is a coordinate, Figure.move_to
FigureStep(i) ==
    /\ pc = "loop"
    /\ LET figure == players[i].figures[1]
           next_move == Figure_next_position(figure, 1)
       IN /\ next_move # None
          /\ players' = move_to(players, figure, next_move)
          /\ fsteps' = [fsteps EXCEPT ![i] = @ + 1]
    /\ UNCHANGED <<n, board, starts, pc, turn, nextId, outcome,
                   deleted_figure, wpath>>

NextGeo ==
    \/ \E c \in Cells : WalkStart(c)
    \/ WalkStep
    \/ AddPlayer
    \/ \E i \in 1..2 : FigureStep(i)

SpecGeo == Init /\ [][NextGeo]_vars

----------------------------------------------------------------------------
(* The turn loop of simulacia *)

\* the entry condition without the test of the dice
can_enter_any_roll(player, dice) == Len(player.figures) < max_figures

\* dice == 6 and len(player.figures) < board.max_figures
can_enter(player, dice) ==
    dice = EntryRoll /\ Len(player.figures) < max_figures

\* the end of a loop iteration: break when the player has finished,
\* otherwise itertools.cycle yields the next player
EndOfTurn(ps) ==
    IF has_finished(ps[turn])
    THEN pc' = "done" /\ turn' = turn
    ELSE pc' = "loop" /\ turn' = (turn % Len(ps)) + 1

\* one iteration of the loop of simulacia with the rolled dice; the
\* singleton sets bind the locals active_figures, next_move and the result
\* of board.move_figure
Turn(dice) ==
    /\ pc = "loop"
    /\ \E active \in {active_figures(players[turn])} :
          IF active = <<>>
          THEN IF can_enter(players[turn], dice)
               THEN \* player.add_figure()
                    /\ nextId <= MaxFigureId
                    /\ players' = [players EXCEPT ![turn] = add_figure(@, nextId)]
                    /\ nextId' = nextId + 1
                    /\ outcome' = "added"
                    /\ deleted_figure' = NoFigure
               ELSE \* the turn is skipped: no active figure
                    /\ outcome' = "skipped"
                    /\ deleted_figure' = NoFigure
                    /\ UNCHANGED <<players, nextId>>
          ELSE \E next_move \in {Figure_next_position(active[1], dice)} :
                  IF next_move # None
                  THEN \* board.move_figure(figure, next_move[0], next_move[1])
                       \E moved \in {move_figure(active[1], next_move[1], next_move[2])} :
                          /\ players' = moved.players
                          /\ deleted_figure' = IF moved.del_figure # None
                                               THEN moved.del_figure.id
                                               ELSE NoFigure
                          /\ outcome' = "moved"
                          /\ UNCHANGED nextId
                  ELSE \* the turn is skipped: the figure cannot move by dice
                       /\ outcome' = "blocked"
                       /\ deleted_figure' = NoFigure
                       /\ UNCHANGED <<players, nextId>>
    /\ EndOfTurn(players')
    /\ UNCHANGED <<n, board, starts, wpath, fsteps>>

Next ==
    \/ AddPlayer
    \/ \E dice \in Dice : Turn(dice)

Spec == Init /\ [][Next]_vars

\* a turn whose roll enters or moves a figure
Progress ==
    /\ pc = "loop"
    /\ outcome' \in {"added", "moved"}
    /\ \E dice \in Dice : Turn(dice)

\* the rolls of the player whose turn it is include one that enters or moves
\* a figure: the condition under which Progress can happen
CanProgress ==
    /\ pc = "loop"
    /\ \E active \in {active_figures(players[turn])} :
          IF active = <<>>
          THEN can_enter(players[turn], EntryRoll) /\ nextId <= MaxFigureId
          ELSE \E dice \in Dice : Figure_next_position(active[1], dice) # None

\* the game with a fair die: itertools.cycle gives every player the turn
\* again and again, and of the values a fair random.randint(1, 6) shows in
\* these turns, one that enters or moves a figure comes up again and again
\* if such values exist again and again. This is SF_vars(Progress), written
\* with CanProgress for ENABLED <<Progress>>_vars and with the outcome of the
\* turn for <<Progress>>_vars.
FairDie ==
    \/ <>[]~CanProgress
    \/ []<><<pc = "loop" /\ outcome' \in {"added", "moved"}>>_vars

SpecFair == Init /\ [][Next]_vars /\ FairDie

----------------------------------------------------------------------------
(* Vocabulary of the properties *)

\* <<i, j>>: the j-th figure of the i-th player
FigureRefs ==
    UNION {{<<i, j>> : j \in 1..Len(players[i].figures)} :
              i \in 1..Len(players)}

Fig(r) == players[r[1]].figures[r[2]]

KindOf(c) == box_at(c[1], c[2])

\* the identities of the figures in the collections of the players ps
LiveIds(ps) ==
    UNION {{ps[i].figures[j].id : j \in 1..Len(ps[i].figures)} :
              i \in 1..Len(ps)}

\* the owner and the position of the figure id in the players ps
OwnerOf(ps, id) ==
    CHOOSE i \in 1..Len(ps) :
        \E j \in 1..Len(ps[i].figures) : ps[i].figures[j].id = id

PositionOf(ps, id) ==
    LET i == OwnerOf(ps, id)
        j == CHOOSE j \in 1..Len(ps[i].figures) : ps[i].figures[j].id = id
    IN ps[i].figures[j].position

\* the length of the track the claims state: 4(N-1)
PerimeterLength == 4 * (n - 1)

----------------------------------------------------------------------------
(* C1 *)

\* C1: in every reachable state of the game no coordinate that is not HOME
\* holds more than one figure
C1_NoSharedTrackCell ==
    \A r1 \in FigureRefs, r2 \in FigureRefs :
        (r1 # r2 /\ Fig(r1).position = Fig(r2).position)
            => KindOf(Fig(r1).position) = HOME

----------------------------------------------------------------------------
(* C2 *)

\* C2: Board(n) is constructed only for an odd n >= 5; for every other n
\* the construction fails and produces no board
C2_ConstructsOnlyOddAtLeast5 ==
    /\ pc = "built" => (n % 2 = 1 /\ n >= 5)
    /\ pc = "AssertionError" => board = <<>>
    /\ pc # "new" => pc \in {"built", "AssertionError"}

----------------------------------------------------------------------------
(* C3 *)

\* the centre-side neighbour of a cell on a cross axis
TowardCentre(c) ==
    LET m == n \div 2
        sgn(d) == IF d > 0 THEN 1 ELSE IF d < 0 THEN 0 - 1 ELSE 0
    IN <<c[1] + sgn(m - c[1]), c[2] + sgn(m - c[2])>>

NextToCentre(c) == TowardCentre(c) = <<n \div 2, n \div 2>>

\* C3 as stated: Board.next_position returns None for every HOME cell
C3_HomeHasNoNext ==
    \A i \in 1..(Len(wpath) - 1) :
        KindOf(wpath[i]) = HOME => wpath[i + 1] = None

\* C3 as amended: Board.next_position returns None for the HOME cell next to
\* the centre of each lane and for every HOME cell of the right lane; for the
\* other HOME cells of the top, bottom and left lanes it returns the
\* neighbouring HOME cell one step nearer the centre
C3_HomeNextAmended ==
    \A i \in 1..(Len(wpath) - 1) :
        KindOf(wpath[i]) = HOME =>
            wpath[i + 1] = IF NextToCentre(wpath[i]) \/ wpath[i][1] > n \div 2
                           THEN None
                           ELSE TowardCentre(wpath[i])

\* a walk from a HOME cell that advanced, and that ended with None on the
\* HOME cell next to the centre
C3_Witness ==
    /\ Len(wpath) >= 3
    /\ KindOf(wpath[1]) = HOME
    /\ KindOf(wpath[Len(wpath) - 1]) = HOME
    /\ wpath[Len(wpath)] = None

----------------------------------------------------------------------------
(* C4 *)

\* the cells of kind k in the grid that Board.__init__ built
CellsOfKind(k) ==
    {c \in Cells : board[c[2] + 1][c[1] + 1] = k}

\* C4: the built grid of an odd n >= 5 has exactly one WALL cell, the centre,
\* and its HOME cells are exactly four straight lanes of (n - 3) / 2 cells on
\* the cross axes, each between the centre and a PATH cell on the edge; every
\* other cell is PATH or EMPTY
C4_ClassifyShape ==
    (pc = "built" /\ n >= 5) =>
        LET m == n \div 2
            top == {<<m, y>> : y \in 1..(m - 1)}
            bottom == {<<m, y>> : y \in (m + 1)..(n - 2)}
            left == {<<x, m>> : x \in 1..(m - 1)}
            right == {<<x, m>> : x \in (m + 1)..(n - 2)}
        IN /\ CellsOfKind(WALL) = {<<m, m>>}
           /\ CellsOfKind(HOME) = top \cup bottom \cup left \cup right
           /\ \A lane \in {top, bottom, left, right} :
                 Cardinality(lane) = (n - 3) \div 2
           /\ \A e \in {<<m, 0>>, <<m, n - 1>>, <<0, m>>, <<n - 1, m>>} :
                 board[e[2] + 1][e[1] + 1] = PATH
           /\ \A c \in Cells : board[c[2] + 1][c[1] + 1] \in {EMPTY, WALL, PATH, HOME}

\* a board with lanes of more than one cell has been built
C4_Witness ==
    /\ pc = "built"
    /\ n >= 7
    /\ Cardinality(CellsOfKind(HOME)) = 2 * (n - 3)

----------------------------------------------------------------------------
(* C5 *)

\* C5: Board.next_position maps every PATH cell to a PATH cell; there are
\* 4(n - 1) PATH cells; iterated from an entry coordinate it returns to that
\* coordinate after exactly 4(n - 1) calls and not before, having visited
\* every PATH cell
C5_ClosedLoop ==
    /\ Cardinality(CellsOfKind(PATH)) = PerimeterLength
    /\ \A i \in 1..(Len(wpath) - 1) :
          KindOf(wpath[i]) = PATH =>
              /\ wpath[i + 1] # None
              /\ KindOf(wpath[i + 1]) = PATH
    /\ (wpath # <<>> /\ \E k \in 1..2 : wpath[1] = starts[k]) =>
          /\ \A i \in 2..Len(wpath) :
                (wpath[i] = wpath[1]) <=> ((i - 1) % PerimeterLength = 0)
          /\ Len(wpath) >= PerimeterLength =>
                {wpath[i] : i \in 1..PerimeterLength} = CellsOfKind(PATH)

\* a walk from the first entry coordinate that has come back to it
C5_Witness ==
    /\ Len(wpath) = PerimeterLength + 1
    /\ wpath[1] = starts[1]
    /\ wpath[Len(wpath)] = starts[1]

----------------------------------------------------------------------------
(* C6 *)

\* the home lane next to the entry coordinate of player i, from the track
\* inwards: the top lane for the first player, the bottom lane for the second
OwnLane(i) ==
    LET m == n \div 2 IN
    IF i = 1 THEN [k \in 1..(m - 1) |-> <<m, k>>]
    ELSE [k \in 1..(m - 1) |-> <<m, n - 1 - k>>]

\* C6: a figure stepped singly from its entry coordinate is on the track for
\* fewer than 4(n - 1) steps, on the first HOME cell of its own lane after
\* exactly 4(n - 1) steps, and never on a HOME cell of another lane
C6_CircuitEndsInOwnLane ==
    pc = "loop" =>
        \A i \in 1..Len(players) :
            LET position == players[i].figures[1].position
            IN /\ fsteps[i] < PerimeterLength => KindOf(position) = PATH
               /\ fsteps[i] = PerimeterLength => position = OwnLane(i)[1]
               /\ (fsteps[i] > 0 /\ fsteps[i] < PerimeterLength)
                     => position # players[i].home_position
               /\ KindOf(position) = HOME
                     => \E k \in 1..Len(OwnLane(i)) : position = OwnLane(i)[k]

\* both figures have completed the circuit
C6_Witness ==
    /\ pc = "loop"
    /\ \A i \in 1..2 : fsteps[i] = PerimeterLength

----------------------------------------------------------------------------
(* C7 *)

\* the figures standing on coordinate c
FiguresOn(c) == {r \in FigureRefs : Fig(r).position = c}

\* C7: for every figure and every roll, Figure.next_position returns no HOME
\* coordinate on which a figure stands; no HOME cell holds two figures
C7_NoOccupiedHomeDestination ==
    /\ \A r \in FigureRefs, dice \in Dice :
          LET destination == Figure_next_position(Fig(r), dice)
          IN (destination # None /\ KindOf(destination) = HOME)
                => FiguresOn(destination) = {}
    /\ \A c \in CellsOfKind(HOME) : Cardinality(FiguresOn(c)) <= 1

\* a figure on the track whose roll would end on a HOME cell that another
\* figure occupies, so that Figure.next_position answers None
C7_Witness ==
    \E r \in FigureRefs, dice \in Dice :
        LET f == Fig(r)
            landing == StepLoop(f.position, f.start_position, dice)
        IN /\ KindOf(f.position) = PATH
           /\ landing # None
           /\ KindOf(landing) = HOME
           /\ FiguresOn(landing) # {}
           /\ Figure_next_position(f, dice) = None

----------------------------------------------------------------------------
(* C8 *)

\* C8: a turn that captures removes exactly the captured figure, a figure of
\* the opponent, from its owner; the mover stands where the captured figure
\* stood; every other figure keeps its owner and position; and a figure that
\* has left the collections never comes back
C8_CaptureFrame ==
    [][ /\ (outcome' = "moved" /\ deleted_figure' # NoFigure) =>
             LET g == deleted_figure'
                 rest == LiveIds(players) \ {g}
             IN /\ g \in LiveIds(players)
                /\ OwnerOf(players, g) # turn
                /\ LiveIds(players') = rest
                /\ \A i \in 1..Len(players) :
                      Len(players'[i].figures) =
                          Len(players[i].figures)
                              - (IF i = OwnerOf(players, g) THEN 1 ELSE 0)
                /\ \A id \in rest :
                      OwnerOf(players', id) = OwnerOf(players, id)
                /\ \E mover \in rest :
                      /\ OwnerOf(players, mover) = turn
                      /\ PositionOf(players', mover) = PositionOf(players, g)
                      /\ \A id \in rest \ {mover} :
                            PositionOf(players', id) = PositionOf(players, id)
        /\ \A id \in 1..(nextId - 1) :
              id \notin LiveIds(players) => id \notin LiveIds(players')
      ]_vars

\* the turn just taken captured a figure, and a figure created later is in
\* play
C8_Witness ==
    /\ outcome = "moved"
    /\ deleted_figure # NoFigure
    /\ deleted_figure \notin LiveIds(players)
    /\ \E id \in LiveIds(players) : id > 2

----------------------------------------------------------------------------
(* C9 *)

\* the player owns exactly (n - 3) / 2 figures and each is on a HOME cell
OwnsAllAtHome(player) ==
    /\ Len(player.figures) = (n - 3) \div 2
    /\ \A j \in 1..Len(player.figures) : KindOf(player.figures[j].position) = HOME

\* the player whose turn was the last one taken
LastPlayer == IF pc = "done" THEN turn ELSE (turn % 2) + 1

\* C9: has_finished is true exactly of a player that owns (n - 3) / 2
\* figures, all on HOME cells, and the loop ends exactly on such a player
C9_HasFinishedIffAllAtHome ==
    /\ \A i \in 1..Len(players) :
          has_finished(players[i]) <=> OwnsAllAtHome(players[i])
    /\ pc = "done" => OwnsAllAtHome(players[turn])
    /\ (pc = "loop" /\ outcome # "none") => ~OwnsAllAtHome(players[LastPlayer])

\* the player who has just taken a turn owns fewer than max_figures figures,
\* at least one, all of them on HOME cells, and the game goes on
C9_Witness ==
    /\ pc = "loop"
    /\ outcome # "none"
    /\ LET player == players[LastPlayer]
       IN /\ Len(player.figures) >= 1
          /\ Len(player.figures) < (n - 3) \div 2
          /\ \A j \in 1..Len(player.figures) :
                KindOf(player.figures[j].position) = HOME

----------------------------------------------------------------------------
(* C10 *)

\* the rolled dice gives the player of this turn, whose active figures are
\* active, no move: no active figure and no entry, or a first active figure
\* that cannot move by dice
PassCase(active, dice) ==
    IF active = <<>>
    THEN ~(dice = 6 /\ Len(players[turn].figures) < (n - 3) \div 2)
    ELSE Figure_next_position(active[1], dice) = None

\* nothing about the figures changes in the step
FiguresUntouched ==
    /\ players' = players
    /\ nextId' = nextId
    /\ deleted_figure' = NoFigure

\* C10: a turn whose roll gives no move leaves every figure where it is,
\* adds none and removes none
C10_PassLeavesState ==
    [][ pc = "loop" =>
          \/ FiguresUntouched /\ outcome' \in {"skipped", "blocked"}
          \/ \A active \in {active_figures(players[turn])}, dice \in Dice :
                ~(PassCase(active, dice) /\ Turn(dice))
      ]_vars

\* a turn passed because the figure could not move by the dice, the player
\* before having passed for want of an active figure
C10_Witness ==
    /\ outcome = "blocked"
    /\ pc = "loop"
    /\ active_figures(players[turn]) = <<>>

----------------------------------------------------------------------------
(* C11 *)

\* the innermost HOME cell of the lane of player i
FinalHome(i) == OwnLane(i)[Len(OwnLane(i))]

\* the single steps on the longest way of a figure: the track, then the lane
RouteLength == PerimeterLength + (n - 3) \div 2 - 1

\* the number of single steps (Board.next_position, redirected at the own
\* entry coordinate) from position to target; RouteLength + 1 when the steps
\* end before they reach it
RECURSIVE Remaining(_, _, _, _)
Remaining(position, start_position, target, fuel) ==
    IF position = target THEN 0
    ELSE IF fuel = 0 THEN RouteLength + 1
    ELSE LET nxt == StepLoop(position, start_position, 1)
         IN IF nxt = None THEN RouteLength + 1
            ELSE LET rest == Remaining(nxt, start_position, target, fuel - 1)
                 IN IF rest > RouteLength THEN rest ELSE rest + 1

RemainingToFinal(r) ==
    Remaining(Fig(r).position, Fig(r).start_position, FinalHome(r[1]),
              RouteLength)

\* C11: for a figure d single steps before the innermost HOME cell of its
\* own lane, Figure.next_position returns None for steps > d, that cell for
\* steps = d when no figure stands on it, and a coordinate for steps < d
\* unless the steps end on a HOME cell on which a figure stands
C11_OvershootIsIllegal ==
    \A r \in FigureRefs :
        \A d \in {RemainingToFinal(r)} :
            /\ d <= RouteLength
            /\ \A steps \in 1..MaxSteps :
                  \A result \in {Figure_next_position(Fig(r), steps)} :
                      /\ steps > d => result = None
                      /\ (steps = d /\ FiguresOn(FinalHome(r[1])) = {})
                            => result = FinalHome(r[1])
                      /\ (steps < d /\ result = None) =>
                            LET landing == StepLoop(Fig(r).position,
                                                    Fig(r).start_position,
                                                    steps)
                            IN /\ landing # None
                               /\ KindOf(landing) = HOME
                               /\ FiguresOn(landing) # {}

\* a figure on the track two steps before the end of its lane: one step is
\* legal, two steps end on the final HOME cell, three steps overshoot
C11_Witness ==
    \E r \in FigureRefs :
        /\ KindOf(Fig(r).position) = PATH
        /\ RemainingToFinal(r) = 2
        /\ Figure_next_position(Fig(r), 1) # None
        /\ Figure_next_position(Fig(r), 2) = FinalHome(r[1])
        /\ Figure_next_position(Fig(r), 3) = None

----------------------------------------------------------------------------
(* C12 *)

\* how many figures player i owns in the sequence of players ps
Owned(ps, i) == IF i \in DOMAIN ps THEN Len(ps[i].figures) ELSE 0

\* C12: a player never owns more than (N - 3) / 2 figures, and the number
\* a player owns grows only by one, either in add_player or in the turn of
\* a player with no active figure who rolls 6 and owns fewer than
\* (N - 3) / 2 figures
C12_FiguresAtMostMax ==
    [][\A i \in DOMAIN players' :
          /\ Owned(players', i) <= (n - 3) \div 2
          /\ Owned(players', i) > Owned(players, i) =>
                /\ Owned(players', i) = Owned(players, i) + 1
                /\ \/ /\ pc \in {"built", "setup"}
                      /\ i = Len(players) + 1
                      /\ AddPlayer
                   \/ /\ pc = "loop"
                      /\ i = turn
                      /\ active_figures(players[turn]) = <<>>
                      /\ Owned(players, i) < (n - 3) \div 2
                      /\ Turn(EntryRoll)
                      /\ \A dice \in Dice \ {EntryRoll} : ~Turn(dice)]_vars

\* a player who owns as many figures as the lane has cells, the last of
\* them entered by a roll of 6 during the game
C12_Witness ==
    /\ pc \in {"loop", "done"}
    /\ outcome = "added"
    /\ n >= 7
    /\ Owned(players, LastPlayer) = (n - 3) \div 2

----------------------------------------------------------------------------
(* C13 *)

\* the identities of the figures that stand on a HOME cell
HomeIds(ps) == {id \in LiveIds(ps) : KindOf(PositionOf(ps, id)) = HOME}

\* C13: no turn removes a figure that stands on a HOME cell from the
\* collection of its owner; a figure a capture removes stood on a PATH cell
C13_HomeFigureStays ==
    [][ /\ \A id \in HomeIds(players) :
              /\ id \in LiveIds(players')
              /\ OwnerOf(players', id) = OwnerOf(players, id)
        /\ \A id \in LiveIds(players) \ LiveIds(players') :
              KindOf(PositionOf(players, id)) = PATH ]_vars

\* a capture has just removed a figure while another figure stands at HOME
C13_Witness ==
    /\ outcome = "moved"
    /\ deleted_figure # NoFigure
    /\ deleted_figure \notin LiveIds(players)
    /\ HomeIds(players) # {}

----------------------------------------------------------------------------
(* C14 *)

\* the figure r is a member of the active figures of its owner
IsActive(r) ==
    \E k \in 1..Len(active_figures(players[r[1]])) :
        active_figures(players[r[1]])[k].id = Fig(r).id

\* C14 as stated: a figure on a HOME cell is never a member of
\* Player.active_figures, and no turn changes its position
C14_HomeNeverActive ==
    [][\A r \in FigureRefs :
          KindOf(Fig(r).position) = HOME =>
              /\ ~IsActive(r)
              /\ Fig(r).id \in LiveIds(players')
              /\ PositionOf(players', Fig(r).id) = Fig(r).position]_vars

\* C14 amended: a figure on a HOME cell stands in the lane of its owner; it
\* is a member of Player.active_figures exactly when its cell is not the
\* innermost one and no figure stands on the next cell towards the centre;
\* a turn leaves it on its cell or moves it nearer the centre in that lane,
\* and on the innermost cell its position never changes
C14_HomeActiveAmended ==
    [][\A r \in FigureRefs :
          KindOf(Fig(r).position) = HOME =>
              \E j \in DOMAIN OwnLane(r[1]) :
                  /\ OwnLane(r[1])[j] = Fig(r).position
                  /\ IsActive(r) <=>
                        /\ j < Len(OwnLane(r[1]))
                        /\ FiguresOn(OwnLane(r[1])[j + 1]) = {}
                  /\ Fig(r).id \in LiveIds(players')
                  /\ \E k \in j..Len(OwnLane(r[1])) :
                        PositionOf(players', Fig(r).id) = OwnLane(r[1])[k]
                  /\ j = Len(OwnLane(r[1])) =>
                        PositionOf(players', Fig(r).id) = Fig(r).position]_vars

\* a figure on the first HOME cell of a lane of two cells, the second one
\* free: it is active
C14_Witness ==
    \E r \in FigureRefs :
        /\ KindOf(Fig(r).position) = HOME
        /\ Fig(r).position # FinalHome(r[1])
        /\ IsActive(r)

----------------------------------------------------------------------------
(* C15 *)

\* C15: every figure stands on a coordinate of the grid whose cell is PATH
\* or HOME
C15_FiguresOnPathOrHome ==
    \A r \in FigureRefs :
        /\ Fig(r).position \in Cells
        /\ KindOf(Fig(r).position) \in {PATH, HOME}

\* after a move, one figure stands on the track and another in a lane
C15_Witness ==
    /\ outcome = "moved"
    /\ \E r \in FigureRefs : KindOf(Fig(r).position) = PATH
    /\ \E r \in FigureRefs : KindOf(Fig(r).position) = HOME

----------------------------------------------------------------------------
(* C16 *)

\* the positions in the collection of player i of ps that are no HOME cells
TrackFigures(ps, i) ==
    {j \in 1..Len(ps[i].figures) : KindOf(ps[i].figures[j].position) # HOME}

\* no two figures of player i of ps stand on one coordinate
NoSharedOwnCell(ps, i) ==
    \A j, k \in 1..Len(ps[i].figures) :
        j # k => ps[i].figures[j].position # ps[i].figures[k].position

\* C16: in the game loop no two figures of one player share a coordinate,
\* a player has at most one figure that is not on a HOME cell, and no turn
\* removes a figure of the player who moves
C16_OwnFiguresApart ==
    [][ /\ \A i \in 1..Len(players') :
              /\ NoSharedOwnCell(players', i)
              /\ Cardinality(TrackFigures(players', i)) <= 1
        /\ pc = "loop" =>
              \A id \in LiveIds(players) \ LiveIds(players') :
                  OwnerOf(players, id) # turn ]_vars

\* the player who has just captured owns two figures, one of them at HOME
C16_Witness ==
    /\ outcome = "moved"
    /\ deleted_figure # NoFigure
    /\ Len(players[LastPlayer].figures) = 2
    /\ Cardinality(TrackFigures(players, LastPlayer)) = 1

----------------------------------------------------------------------------
(* C17 *)

\* the cells of the lane of player i
OwnLaneCells(i) == {OwnLane(i)[k] : k \in DOMAIN OwnLane(i)}

\* the cells on which the figures of player i stand
OccupiedBy(i) ==
    {players[i].figures[j].position : j \in 1..Len(players[i].figures)}

\* C17: the figures of a player for whom has_finished is true stand on the
\* cells of the lane at its own entry coordinate, one figure on each cell
\* and none anywhere else
C17_FinishedFillsOwnLane ==
    \A i \in 1..Len(players) :
        has_finished(players[i]) =>
            /\ OccupiedBy(i) = OwnLaneCells(i)
            /\ Len(players[i].figures) = Cardinality(OwnLaneCells(i))

\* the loop has ended on a player whose lane has two cells
C17_Witness ==
    /\ pc = "done"
    /\ has_finished(players[turn])
    /\ Cardinality(OwnLaneCells(turn)) >= 2
    /\ OccupiedBy(turn) = OwnLaneCells(turn)

----------------------------------------------------------------------------
(* C18 *)

\* C18: in every one of the four lanes Board.next_position returns, for a
\* HOME cell that is not next to the centre, the neighbouring HOME cell one
\* step nearer the centre
C18_LanesAlike ==
    \A i \in 1..(Len(wpath) - 1) :
        (KindOf(wpath[i]) = HOME /\ ~NextToCentre(wpath[i]))
            => wpath[i + 1] = TowardCentre(wpath[i])

----------------------------------------------------------------------------
(* C19 *)

\* a player with no active figure and fewer than max_figures figures, who
\* can enter no figure because every figure identity is in use
IdStarved ==
    /\ pc = "loop"
    /\ nextId > MaxFigureId
    /\ \E i \in 1..Len(players) :
          /\ active_figures(players[i]) = <<>>
          /\ Len(players[i].figures) < (n - 3) \div 2

====
